---- MODULE Spec2Model ----
(***************************************************************************)
(* Model of the appointment-service backend: the express routes of         *)
(* src/src/controller/authController.ts (register, login, CreateService,   *)
(* SetAvailability), the middleware of src/src/middleware/auth.ts and the  *)
(* tables of the init migration.  Every request is handled by one slot of  *)
(* Procs; a handler is cut into one action per database round trip (each   *)
(* `await prisma...`), which is where the node event loop may interleave   *)
(* another request.                                                        *)
(***************************************************************************)
EXTENDS Integers, Sequences, FiniteSets

VARIABLES
  users,         \* table "User", in insertion order; a row's id is its index
  tokens,        \* the tokens login has signed
  services,      \* table "service"
  availability,  \* table "availability"
  pc,            \* per request slot: where its handler stands
  req,           \* per request slot: route, Authorization header, body
  user,          \* per request slot: req.user, set by authenticate
  findslote,     \* per request slot: the rows findMany returned
  resp,          \* per request slot: the response sent (the first one wins)
  created        \* per request slot: id of the row its create inserted, 0 if none

vars == <<users, tokens, services, availability, pc, req, user, findslote, resp, created>>

\* ---------------------------------------------------------------- bounds

\* Request handlers in flight at the same time.
NumProcs == 2
\* Rows the model lets each table grow to.
MaxUsers == 2
MaxServices == 1
MaxRows == 2

Procs == 1..NumProcs

\* ------------------------------------------------------------ JS strings

\* A JS string that the code takes apart is a sequence of one-character strings.
T0900 == <<"0", "9", ":", "0", "0">>
T1000 == <<"1", "0", ":", "0", "0">>
T1001 == <<"1", "0", ":", "0", "1">>
T1100 == <<"1", "1", ":", "0", "0">>
EmptyString == <<>>

\* String.prototype.split(sep): the pieces between the separators.
RECURSIVE Split(_, _)
Split(s, sep) ==
  IF \A i \in 1..Len(s) : s[i] # sep
  THEN <<s>>
  ELSE LET k == CHOOSE i \in 1..Len(s) : s[i] = sep /\ \A j \in 1..(i - 1) : s[j] # sep
       IN <<SubSeq(s, 1, k - 1)>> \o Split(SubSeq(s, k + 1, Len(s)), sep)

\* JS truthiness of a string and of a number.
TruthyString(s) == Len(s) > 0
TruthyNumber(n) == n # 0

\* ------------------------------------------------------------------ zod

\* authController.ts imports the factory `number` from zod and calls it on a
\* string: number("09:00") builds a ZodNumber schema (the argument is taken as
\* its error message).  It converts nothing to a number.
number(x) == [zodType |-> "ZodNumber", error |-> x]

\* The relational operators applied to two objects compare their primitives:
\* Object.prototype.toString gives "[object Object]" for either schema, and
\* two strings compare by code unit.
ObjectString ==
  <<"[", "o", "b", "j", "e", "c", "t", " ", "O", "b", "j", "e", "c", "t", "]">>
ToPrimitive(o) == ObjectString
CharCode(c) ==
  CASE c = " " -> 32 [] c = "O" -> 79 [] c = "[" -> 91 [] c = "]" -> 93
    [] c = "b" -> 98 [] c = "c" -> 99 [] c = "e" -> 101 [] c = "j" -> 106
    [] c = "o" -> 111 [] c = "t" -> 116
RECURSIVE StringLess(_, _)
StringLess(s, t) ==
  IF Len(t) = 0 THEN FALSE
  ELSE IF Len(s) = 0 THEN TRUE
  ELSE IF CharCode(Head(s)) # CharCode(Head(t)) THEN CharCode(Head(s)) < CharCode(Head(t))
  ELSE StringLess(Tail(s), Tail(t))
JsLess(a, b) == StringLess(ToPrimitive(a), ToPrimitive(b))
JsGreater(a, b) == StringLess(ToPrimitive(b), ToPrimitive(a))
JsLessEq(a, b) == ~StringLess(ToPrimitive(b), ToPrimitive(a))

\* z.email() and the string length checks of registerSchema.
WellFormedEmails == {"a@x.io", "b@x.io"}
Roles == {"USER", "SERVICE_PROVIDER"}
MinName == 1
MinPassword == 6
RegisterValid(b) ==
  /\ Len(b.name) >= MinName
  /\ b.email \in WellFormedEmails
  /\ Len(b.password) >= MinPassword
  /\ b.role \in Roles

\* loginSchema: the password is any string.
LoginValid(b) == b.email \in WellFormedEmails

\* ZodForCreateService.
ServiceTypes == {"MEDICAL", "HOUSE_HELP", "BEAUTY", "FITNESS", "EDUCATION", "OTHER"}
MinDuration == 30
MaxDuration == 120
DurationStep == 30
CreateServiceValid(b) ==
  /\ b.name = "Physiotherapy"
  /\ b.type \in ServiceTypes
  /\ b.durationMinutes >= MinDuration
  /\ b.durationMinutes <= MaxDuration
  /\ b.durationMinutes % DurationStep = 0

\* ------------------------------------------------------- bcrypt and jwt

Hash(pw) == <<"bcrypt", pw>>
Compare(pw, h) == h = Hash(pw)

\* jwt.sign: a token carries its payload; only the server signs with JWT_SECRET.
Sign(id, role) == [payload |-> [id |-> id, role |-> role], signed |-> TRUE]
\* jwt.verify: throws on a bad signature, else returns the payload.
Verifies(t) == t.signed /\ t \in tokens

\* ------------------------------------------------------------- requests

NoUser == [id |-> 0, role |-> ""]
NoResp == [status |-> 0, error |-> ""]
NoAuth == [scheme |-> "none", token |-> [payload |-> NoUser, signed |-> FALSE]]
NoReq == [route |-> "", auth |-> NoAuth, body |-> <<>>]
Response(status, error) == [status |-> status, error |-> error]

Secret == <<"s", "e", "c", "r", "e", "t">>
Short == <<"a", "b", "c">>
Wrong == <<"w", "r", "o", "n", "g", "!">>

\* The request bodies the model sends: well-formed ones and one per broken rule.
RegisterBodies ==
  [name : {<<"A">>}, email : WellFormedEmails, password : {Secret}, role : Roles]
  \cup {[name |-> <<>>, email |-> "a@x.io", password |-> Secret, role |-> "USER"],
        [name |-> <<"A">>, email |-> "nobody", password |-> Secret, role |-> "USER"],
        [name |-> <<"A">>, email |-> "a@x.io", password |-> Short, role |-> "USER"],
        [name |-> <<"A">>, email |-> "a@x.io", password |-> Secret, role |-> "ADMIN"]}

LoginBodies ==
  [email : WellFormedEmails, password : {Secret, Wrong}]
  \cup {[email |-> "nobody", password |-> Secret]}

CreateServiceBodies ==
  {[name |-> "Physiotherapy", type |-> "MEDICAL", durationMinutes |-> 30],
   [name |-> "Physiotherapy", type |-> "MEDICAL", durationMinutes |-> 45],
   [name |-> "Yoga", type |-> "FITNESS", durationMinutes |-> 60]}

\* POST /services/:serviceId/availability: the service id of the path and the
\* body.  dayOfWeek 0 is Sunday and 7 is past Saturday; service 1 is the first
\* one created and MaxServices + 1 never exists.
AvailabilityBody(s, d, start, end) ==
  [serviceId |-> s, dayOfWeek |-> d, startTime |-> start, endTime |-> end]
AvailabilityBodies ==
  {AvailabilityBody(1, 1, T1000, T1100),
   AvailabilityBody(1, 1, T0900, T1000),
   AvailabilityBody(1, 1, T0900, T1001),
   AvailabilityBody(1, 1, T1100, T1000),
   AvailabilityBody(1, 1, EmptyString, T1000),
   AvailabilityBody(1, 0, T0900, T1000),
   AvailabilityBody(1, 7, T0900, T1000),
   AvailabilityBody(MaxServices + 1, 1, T0900, T1000)}

\* The Authorization headers a client can send: none, a wrong scheme, a token
\* that was not signed by this server, or a token login has issued.
Forged == [payload |-> [id |-> 1, role |-> "SERVICE_PROVIDER"], signed |-> FALSE]
AuthHeaders ==
  {NoAuth, [scheme |-> "Bearer", token |-> Forged]}
  \cup {[scheme |-> s, token |-> t] : s \in {"Basic", "Bearer"}, t \in tokens}

Routes == {"register", "login", "services", "availability"}
ProviderRoutes == {"services", "availability"}

InFlight(route) == Cardinality({p \in Procs : req[p].route = route /\ pc[p] # "done"})

\* ----------------------------------------------------------------- state

Init ==
  /\ users = <<>>
  /\ tokens = {}
  /\ services = <<>>
  /\ availability = <<>>
  /\ pc = [p \in Procs |-> "idle"]
  /\ req = [p \in Procs |-> NoReq]
  /\ user = [p \in Procs |-> NoUser]
  /\ findslote = [p \in Procs |-> <<>>]
  /\ resp = [p \in Procs |-> NoResp]
  /\ created = [p \in Procs |-> 0]

\* res.status(s).json(...) ends the request on an early return.
Reply(p, status, error) ==
  /\ resp' = [resp EXCEPT ![p] = Response(status, error)]
  /\ pc' = [pc EXCEPT ![p] = "done"]

\* A request arrives on a free slot.  app.use("/auth", authRoutes) leads to
\* register and login; the provider routes start with authenticate.
ReceiveOn(p, routes) ==
  /\ pc[p] = "idle"
  /\ \E route \in routes, auth \in AuthHeaders :
       /\ route = "register" => Len(users) + InFlight("register") < MaxUsers
       /\ route = "services" => Len(services) + InFlight("services") < MaxServices
       /\ route = "availability" => Len(availability) + InFlight("availability") < MaxRows
       /\ route \notin ProviderRoutes => auth = NoAuth
       /\ req' = [req EXCEPT ![p] = [route |-> route, auth |-> auth, body |-> <<>>]]
       /\ pc' = [pc EXCEPT ![p] = IF route \in ProviderRoutes THEN "authenticate" ELSE route]
  /\ UNCHANGED <<users, tokens, services, availability, user, findslote, resp, created>>

Receive(p) == ReceiveOn(p, Routes)

\* ------------------------------------------------------------- /auth

\* register up to its first database answer: the body is validated, then
\* findUnique looks the email up.
RegisterFindUnique(p) ==
  /\ pc[p] = "register"
  /\ \E body \in RegisterBodies :
       /\ req' = [req EXCEPT ![p].body = body]
       /\ IF ~RegisterValid(body)
          THEN Reply(p, 400, "Invalid input")
          ELSE IF \E i \in 1..Len(users) : users[i].email = body.email
          THEN Reply(p, 409, "Email already exists")
          ELSE /\ pc' = [pc EXCEPT ![p] = "register_create"]
               /\ UNCHANGED resp
  /\ UNCHANGED <<users, tokens, services, availability, user, findslote, created>>

\* prisma.user.create under the unique index User_email_key: the insert of a
\* second row with the same email throws, and the catch answers 500.
UserCreateNoIndex(row) == [ok |-> TRUE, table |-> Append(users, row)]

UserCreate(row) ==
  IF \E i \in 1..Len(users) : users[i].email = row.email
  THEN [ok |-> FALSE, table |-> users]
  ELSE [ok |-> TRUE, table |-> Append(users, row)]

RegisterCreate(p) ==
  /\ pc[p] = "register_create"
  /\ LET b == req[p].body
         r == UserCreate([email |-> b.email, passwordHash |-> Hash(b.password),
                          role |-> b.role, name |-> b.name])
     IN /\ users' = r.table
        /\ created' = [created EXCEPT ![p] = IF r.ok THEN Len(r.table) ELSE 0]
        /\ IF r.ok THEN Reply(p, 201, "") ELSE Reply(p, 500, "Internal server error")
  /\ UNCHANGED <<tokens, services, availability, req, user, findslote>>

\* login reads the user once and writes nothing; the token it signs is the
\* only thing it adds to the world.
Login(p) ==
  /\ pc[p] = "login"
  /\ \E body \in LoginBodies :
       /\ req' = [req EXCEPT ![p].body = body]
       /\ IF ~LoginValid(body)
          THEN Reply(p, 400, "Invalid input") /\ UNCHANGED tokens
          ELSE IF ~\E i \in 1..Len(users) : users[i].email = body.email
          THEN Reply(p, 401, "Invalid credentials") /\ UNCHANGED tokens
          ELSE LET i == CHOOSE j \in 1..Len(users) : users[j].email = body.email
               IN IF ~Compare(body.password, users[i].passwordHash)
                  THEN Reply(p, 401, "Invalid credentials") /\ UNCHANGED tokens
                  ELSE /\ tokens' = tokens \cup {Sign(i, users[i].role)}
                       /\ Reply(p, 200, "")
  /\ UNCHANGED <<users, services, availability, user, findslote, created>>

\* -------------------------------------------------------- middleware

\* authenticate: the header must start with "Bearer " and the token verify.
AuthenticateAcceptsAnyBearer(auth) == auth.scheme = "Bearer"

AuthenticateAccepts(auth) == auth.scheme = "Bearer" /\ Verifies(auth.token)

Authenticate(p) ==
  /\ pc[p] = "authenticate"
  /\ IF AuthenticateAccepts(req[p].auth)
     THEN /\ user' = [user EXCEPT ![p] = req[p].auth.token.payload]
          /\ pc' = [pc EXCEPT ![p] = "isService_Provider"]
          /\ UNCHANGED resp
     ELSE /\ Reply(p, 401, IF req[p].auth.scheme = "Bearer" THEN "Invalid token"
                           ELSE "Unauthorized")
          /\ UNCHANGED user
  /\ UNCHANGED <<users, tokens, services, availability, req, findslote, created>>

\* isService_Provider: next() only for the role SERVICE_PROVIDER.
RoleAccepted(u) == u.role = "SERVICE_PROVIDER"

IsServiceProvider(p) ==
  /\ pc[p] = "isService_Provider"
  /\ IF RoleAccepted(user[p])
     THEN pc' = [pc EXCEPT ![p] = req[p].route] /\ UNCHANGED resp
     ELSE Reply(p, 403, "Forbidden (wrong role)")
  /\ UNCHANGED <<users, tokens, services, availability, req, user, findslote, created>>

\* ---------------------------------------------------------- /services

\* CreateService: a body the schema refuses throws into the catch (500);
\* otherwise one service row is inserted for req.user.id.
CreateService(p) ==
  /\ pc[p] = "services"
  /\ \E body \in CreateServiceBodies :
       /\ req' = [req EXCEPT ![p].body = body]
       /\ IF ~CreateServiceValid(body)
          THEN /\ Reply(p, 500, " Internal server error")
               /\ UNCHANGED <<services, created>>
          ELSE /\ services' = Append(services, [name |-> body.name, type |-> body.type,
                                 durationMinutes |-> body.durationMinutes,
                                 userId |-> user[p].id])
               /\ created' = [created EXCEPT ![p] = Len(services) + 1]
               /\ Reply(p, 201, "")
  /\ UNCHANGED <<users, tokens, availability, user, findslote>>

\* ------------------------------------------- /services/:serviceId/availability

\* zodForSetAvailability is built from the zod factories themselves
\* ({dayOfWeek: number, ...}), not from schemas (number()).  What parse does
\* with such a shape is the library's business: it either hands the three
\* fields back or throws into the catch.
ParseOutcomes == {"parsed", "throws"}

\* The falsy test of the handler: an empty time, day 0 or no service id.
MissingInput(b) ==
  \/ ~TruthyString(b.startTime)
  \/ ~TruthyString(b.endTime)
  \/ ~TruthyNumber(b.dayOfWeek)
  \/ ~TruthyNumber(b.serviceId)

\* prisma.service.findFirst({where: {id}}).
ServiceExists(id) == id \in 1..Len(services)

\* SetAvailability up to the answer of findFirst.
SetAvailabilityFindService(p) ==
  /\ pc[p] = "availability"
  /\ \E body \in AvailabilityBodies, outcome \in ParseOutcomes :
       /\ req' = [req EXCEPT ![p].body = body]
       /\ IF outcome = "throws"
          THEN Reply(p, 500, "Internal server error")
          ELSE IF MissingInput(body)
          THEN Reply(p, 400, "Invalid input or time format")
          ELSE IF ~ServiceExists(body.serviceId)
          THEN Reply(p, 500, "Service not found")
          ELSE pc' = [pc EXCEPT ![p] = "availability_findMany"] /\ UNCHANGED resp
  /\ UNCHANGED <<users, tokens, services, availability, user, findslote, created>>

\* prisma.availability.findMany({where: {serviceId, dayOfWeek}}).
FindSlots(serviceId, dayOfWeek) ==
  SelectSeq(availability,
            LAMBDA w : w.serviceId = serviceId /\ w.dayOfWeek = dayOfWeek)

\* The body of the forEach callback: whether it answers "Overlapping
\* availability" for the stored row `element`.  endSplitDate is taken from
\* element.startTime, as in the code.
CallbackAnswers(element, startTime, endTime) ==
  LET userStartingTime == Split(startTime, ",")
      userEndingTime == Split(endTime, ",")
      startSplitDate == Split(element.startTime, ",")
      endSplitDate == Split(element.startTime, ",")
  IN \/ /\ JsLessEq(number(startSplitDate[1]), number(userStartingTime[1]))
        /\ JsGreater(number(endSplitDate[1]), number(userStartingTime[1]))
     \/ JsLess(number(userEndingTime[1]), number(startSplitDate[1]))

Answering(slots, startTime, endTime) ==
  {i \in 1..Len(slots) : CallbackAnswers(slots[i], startTime, endTime)}

\* SetAvailability from the answer of findMany to the call of create.  A
\* `return res...` inside the callback leaves only the callback: the first
\* one answers the request and the handler goes on to create.  A second one
\* finds the headers sent, throws out of forEach and, again, out of the catch.
SetAvailabilityFindMany(p) ==
  /\ pc[p] = "availability_findMany"
  /\ LET b == req[p].body
         found == FindSlots(b.serviceId, b.dayOfWeek)
         hits == Cardinality(Answering(found, b.startTime, b.endTime))
     IN /\ findslote' = [findslote EXCEPT ![p] = found]
        /\ resp' = [resp EXCEPT ![p] =
                      IF hits = 0 THEN NoResp
                      ELSE Response(500, "Overlapping availability")]
        /\ pc' = [pc EXCEPT ![p] = IF hits <= 1 THEN "availability_create" ELSE "done"]
  /\ UNCHANGED <<users, tokens, services, availability, req, user, created>>

\* prisma.availability.create, then the 201 unless the request was answered.
SetAvailabilityCreate(p) ==
  /\ pc[p] = "availability_create"
  /\ LET b == req[p].body
     IN availability' = Append(availability,
                               [id |-> Len(availability) + 1,
                                serviceId |-> b.serviceId, dayOfWeek |-> b.dayOfWeek,
                                startTime |-> b.startTime, endTime |-> b.endTime])
  /\ created' = [created EXCEPT ![p] = Len(availability) + 1]
  /\ resp' = [resp EXCEPT ![p] = IF resp[p] = NoResp THEN Response(201, "") ELSE resp[p]]
  /\ pc' = [pc EXCEPT ![p] = "done"]
  /\ UNCHANGED <<users, tokens, services, req, user, findslote>>

\* The response is out and the slot takes the next request.
Recycle(p) ==
  /\ pc[p] = "done"
  /\ pc' = [pc EXCEPT ![p] = "idle"]
  /\ req' = [req EXCEPT ![p] = NoReq]
  /\ user' = [user EXCEPT ![p] = NoUser]
  /\ findslote' = [findslote EXCEPT ![p] = <<>>]
  /\ resp' = [resp EXCEPT ![p] = NoResp]
  /\ created' = [created EXCEPT ![p] = 0]
  /\ UNCHANGED <<users, tokens, services, availability>>

Step(p) ==
  \/ Receive(p)
  \/ RegisterFindUnique(p)
  \/ RegisterCreate(p)
  \/ Login(p)
  \/ Authenticate(p)
  \/ IsServiceProvider(p)
  \/ CreateService(p)
  \/ SetAvailabilityFindService(p)
  \/ SetAvailabilityFindMany(p)
  \/ SetAvailabilityCreate(p)
  \/ Recycle(p)

Next == \E p \in Procs : Step(p)

Spec == Init /\ [][Next]_vars

\* Requests handled one at a time: a request is received only while every
\* other slot is idle, so no two handlers are ever in flight together.
Alone(p) == \A q \in Procs \ {p} : pc[q] = "idle"
ReceiveAlone(p) == Alone(p) /\ Receive(p)
NextOneAtATime ==
  \E p \in Procs :
    \/ ReceiveAlone(p)
    \/ RegisterFindUnique(p)
    \/ RegisterCreate(p)
    \/ Login(p)
    \/ Authenticate(p)
    \/ IsServiceProvider(p)
    \/ CreateService(p)
    \/ SetAvailabilityFindService(p)
    \/ SetAvailabilityFindMany(p)
    \/ SetAvailabilityCreate(p)
    \/ Recycle(p)
SpecOneAtATime == Init /\ [][NextOneAtATime]_vars

\* Only POST /auth/register, any number of them at once.
NextRegister ==
  \E p \in Procs :
    \/ ReceiveOn(p, {"register"})
    \/ RegisterFindUnique(p)
    \/ RegisterCreate(p)
    \/ Recycle(p)
SpecRegister == Init /\ [][NextRegister]_vars

\* ------------------------------------------------------------ the claims

\* The meaning the specification gives to a stored time: "HH:MM" read as
\* minutes since midnight, -1 for anything else.
Digit(c) ==
  CASE c = "0" -> 0 [] c = "1" -> 1 [] c = "2" -> 2 [] c = "3" -> 3 [] c = "4" -> 4
    [] c = "5" -> 5 [] c = "6" -> 6 [] c = "7" -> 7 [] c = "8" -> 8 [] c = "9" -> 9
    [] OTHER -> -1
Minutes(t) ==
  IF Len(t) = 5 /\ t[3] = ":" /\ \A i \in {1, 2, 4, 5} : Digit(t[i]) >= 0
  THEN (Digit(t[1]) * 10 + Digit(t[2])) * 60 + Digit(t[4]) * 10 + Digit(t[5])
  ELSE -1
IsRange(w) ==
  /\ Minutes(w.startTime) >= 0
  /\ Minutes(w.startTime) < Minutes(w.endTime)
  /\ Minutes(w.endTime) <= 24 * 60
\* Strict overlap: a.start < b.end and b.start < a.end.
Overlaps(a, b) ==
  /\ Minutes(a.startTime) < Minutes(b.endTime)
  /\ Minutes(b.startTime) < Minutes(a.endTime)
SameKey(a, b) == a.serviceId = b.serviceId /\ a.dayOfWeek = b.dayOfWeek

\* A finished availability request that got through both middlewares and whose
\* body zod handed back to the handler.
Handled(p) ==
  /\ pc[p] = "done"
  /\ req[p].route = "availability"
  /\ user[p].role = "SERVICE_PROVIDER"
  /\ resp[p] # Response(500, "Internal server error")
\* The windows of the request's key that the request did not create itself.
Conflicting(p) ==
  {i \in 1..Len(availability) :
     /\ availability[i].id # created[p]
     /\ SameKey(availability[i], req[p].body)
     /\ Overlaps(availability[i], req[p].body)}
Persisted(p) == created[p] # 0

IssuedBearer(auth) == auth.scheme = "Bearer" /\ auth.token \in tokens
InHandler(p) ==
  pc[p] \in {"services", "availability", "availability_findMany", "availability_create"}

\* C9: on the provider routes isService_Provider runs only after authenticate
\* accepted the token, the handler runs and a row is created only after both
\* accepted; a request without a valid token ends 401, one with another role
\* ends 403, and neither creates a row.
C9_ProviderRoutesGuarded ==
  \A p \in Procs :
    req[p].route \in ProviderRoutes =>
      /\ pc[p] = "isService_Provider" =>
           (IssuedBearer(req[p].auth) /\ user[p] = req[p].auth.token.payload)
      /\ (InHandler(p) \/ Persisted(p)) =>
           /\ IssuedBearer(req[p].auth)
           /\ user[p] = req[p].auth.token.payload
           /\ user[p].role = "SERVICE_PROVIDER"
      /\ (pc[p] = "done" /\ ~IssuedBearer(req[p].auth)) =>
           (resp[p].status = 401 /\ ~Persisted(p))
      /\ (pc[p] = "done" /\ IssuedBearer(req[p].auth)
            /\ req[p].auth.token.payload.role # "SERVICE_PROVIDER") =>
           (resp[p].status = 403 /\ ~Persisted(p))

\* A provider's availability request went through both middlewares and stored
\* its row.
C9_HandlerRanAndStored ==
  \E p \in Procs :
    /\ pc[p] = "done"
    /\ req[p].route = "availability"
    /\ IssuedBearer(req[p].auth)
    /\ Persisted(p)

StoredEmails == {users[i].email : i \in 1..Len(users)}

\* C10: under any interleaving of register requests no two stored users share
\* an email and a request that created a user created the row of its email; a
\* request that finds its email stored is answered 409 and adds no user.
C10_EmailsUnique ==
  /\ [](/\ \A i, j \in 1..Len(users) : i # j => users[i].email # users[j].email
        /\ \A p \in Procs :
             (pc[p] = "done" /\ Persisted(p)) =>
               (resp[p].status = 201 /\ users[created[p]].email = req[p].body.email)
        /\ \A p, q \in Procs :
             (/\ p # q /\ pc[p] = "done" /\ pc[q] = "done"
              /\ req[p].body.email = req[q].body.email)
               => ~(Persisted(p) /\ Persisted(q)))
  /\ [][\A p \in Procs :
          (/\ pc[p] = "register" /\ pc'[p] # "register"
           /\ RegisterValid(req'[p].body)
           /\ req'[p].body.email \in StoredEmails)
            => (resp'[p].status = 409 /\ pc'[p] = "done" /\ users' = users)]_vars

\* Two register requests for one email were in flight together: one created
\* the user, the other ran into the unique index.
C10_RaceOnOneEmail ==
  \E p, q \in Procs :
    /\ p # q /\ pc[p] = "done" /\ pc[q] = "done"
    /\ req[p].body.email = req[q].body.email
    /\ Persisted(p)
    /\ resp[q].status = 500

====
